---------------------------- MODULE Spec2Model ----------------------------
(***************************************************************************)
(* FM-index and FMD-index of src/data_structures/fmindex.rs.               *)
(*                                                                         *)
(* Texts, patterns, the suffix array and the BWT are sequences of bytes    *)
(* or of positions.  TLA+ sequences start at 1 and the source's slices at  *)
(* 0: element k of a slice x is x[k + 1] here, and every row, position and *)
(* interval bound below is the source's 0-based number.                    *)
(*                                                                         *)
(* usize arithmetic is kept: a value >= 0 is a usize, a value < 0 is a     *)
(* panic that ended the computation (PanicOverflow, PanicBounds) and is    *)
(* handed on by every later operation.  A build with overflow checks (the  *)
(* debug profile) panics on usize overflow, a build without them (the      *)
(* release profile) wraps; overflow_checks says which build runs.          *)
(***************************************************************************)
EXTENDS Integers, Sequences, FiniteSets

VARIABLES
    text,             \* the indexed text, ending in the sentinel
    sa,               \* its suffix array (SuffixArraySlice)
    bwt,              \* its BWT (the field bwt of the index)
    overflow_checks,  \* TRUE: usize overflow panics; FALSE: it wraps
    op,               \* the last operation run on the index
    pattern,          \* the pattern of the query
    anchor,           \* smems' argument i
    interval,         \* Interval {lower, upper}: the result of a search or projection
    wrapped,          \* whether a usize operation of the last search left 0..2^w-1
    positions,        \* the result of Interval::occ
    bi,               \* the current BiInterval
    bistr,            \* the string the BiInterval was built for (init and extensions)
    nonzero,          \* every BiInterval of the sequence so far had size > 0
    matches,          \* the result of smems
    starts,           \* for each match, where in the pattern its string starts
    s,                \* SASample.s, the sampling rate of the suffix array
    start,            \* the row sa_pos_to_text_pos was called with
    pos,              \* sa_pos_to_text_pos: the local pos
    offset,           \* sa_pos_to_text_pos: the local offset
    ret               \* sa_pos_to_text_pos: the returned value

vars == <<text, sa, bwt, overflow_checks, op, pattern, anchor, interval, wrapped,
          positions, bi, bistr, nonzero, matches, starts, s, start, pos, offset,
          ret>>

---------------------------------------------------------------------------
(* Bounds of the model *)

\* the longest text (single text) or sum of the reads' lengths (FMD text),
\* sentinels and reverse complements not counted
MaxTextLen == 3
\* the longest pattern
MaxPatLen == 4
\* the largest sampling rate of the suffix array
MaxS == 3
\* the longest string grown by backward_ext / forward_ext calls
MaxExtLen == 3

---------------------------------------------------------------------------
(* Bytes *)

Sentinel == 36   \* b'$'
BaseA == 65
BaseC == 67
BaseG == 71
BaseN == 78
BaseT == 84
\* the distance from an upper case base to its lower case one
CaseShift == 32

\* usize is modelled 30 bits wide: every row, count and position of the model
\* is below 2^8, so a wrapped value is out of every range, as with 64 bits.
UsizeModulus == 1073741824

\* the panics of a computation, as values below 0
PanicOverflow == -1
PanicBounds == -2

---------------------------------------------------------------------------
(* usize arithmetic *)

UAdd(x, y) ==
    IF x < 0 THEN x
    ELSE IF y < 0 THEN y
    ELSE IF x + y < UsizeModulus THEN x + y
    ELSE IF overflow_checks THEN PanicOverflow
    ELSE x + y - UsizeModulus

USub(x, y) ==
    IF x < 0 THEN x
    ELSE IF y < 0 THEN y
    ELSE IF x >= y THEN x - y
    ELSE IF overflow_checks THEN PanicOverflow
    ELSE x - y + UsizeModulus

---------------------------------------------------------------------------
(* Strings *)

RECURSIVE Words(_, _)
\* the words of length len over alphabet
Words(alphabet, len) ==
    IF len = 0 THEN {<<>>}
    ELSE {<<c>> \o w : c \in alphabet, w \in Words(alphabet, len - 1)}

WordsUpTo(alphabet, maxlen) ==
    UNION {Words(alphabet, len) : len \in 1..maxlen}

\* the places j (0-based) where p occurs in t
Occurrences(t, p) ==
    {j \in 0..(Len(t) - Len(p)) : SubSeq(t, j + 1, j + Len(p)) = p}

OccursIn(t, p) == Occurrences(t, p) # {}

---------------------------------------------------------------------------
(* The collaborators of the index: suffix array, BWT, Less, Occ *)

RECURSIVE SuffixLess(_, _, _)
\* whether the suffix t[j..] is lexicographically below the suffix t[k..]
SuffixLess(t, j, k) ==
    IF j >= Len(t) THEN k < Len(t)
    ELSE IF k >= Len(t) THEN FALSE
    ELSE IF t[j + 1] < t[k + 1] THEN TRUE
    ELSE IF t[j + 1] > t[k + 1] THEN FALSE
    ELSE SuffixLess(t, j + 1, k + 1)

\* suffix_array(text): the text's positions, sorted by their suffixes
SuffixArray(t) ==
    LET n == Len(t)
        rank == [j \in 0..(n - 1) |->
                    Cardinality({k \in 0..(n - 1) : SuffixLess(t, k, j)})]
    IN  [r \in 1..n |-> CHOOSE j \in 0..(n - 1) : rank[j] = r - 1]

\* bwt(text, pos): the symbol before each suffix, the last one before suffix 0
BWT(t, suf) ==
    [r \in 1..Len(t) |-> IF suf[r] = 0 THEN t[Len(t)] ELSE t[suf[r]]]

\* less[a]: the number of symbols of the BWT below a
Less(a) == Cardinality({k \in 1..Len(bwt) : bwt[k] < a})

\* Occ::get(bwt, r, a): the number of a in bwt[..r+1]; r >= n is out of bounds
OccGet(r, a) ==
    IF r < 0 THEN r
    ELSE IF r >= Len(bwt) THEN PanicBounds
    ELSE Cardinality({k \in 1..(r + 1) : bwt[k] = a})

\* the rows of the suffix array whose suffix starts with p
SAInterval(p) ==
    {r \in 0..(Len(sa) - 1) :
        /\ sa[r + 1] + Len(p) <= Len(text)
        /\ SubSeq(text, sa[r + 1] + 1, sa[r + 1] + Len(p)) = p}

---------------------------------------------------------------------------
(* FMIndex::backward_search *)

\* BackwardSearchStep with occ(l, a) for occ(l - 1, a)
BackwardSearchStepOccAtL(st, a) ==
    IF st.l < 0 \/ st.r < 0 THEN st
    ELSE
        LET less == Less(a)
            l == UAdd(less, IF st.l > 0 THEN OccGet(st.l, a) ELSE 0)
            below == UAdd(less, OccGet(st.r, a))
            r == USub(below, 1)
        IN  IF l < 0 THEN [l |-> l, r |-> l, wrapped |-> st.wrapped]
            ELSE IF r < 0 THEN [l |-> r, r |-> r, wrapped |-> st.wrapped]
            ELSE [l |-> l, r |-> r, wrapped |-> st.wrapped \/ below = 0]

\* BackwardSearchStep with r = less + occ(r, a), the - 1 forgotten
BackwardSearchStepKeepR(st, a) ==
    IF st.l < 0 \/ st.r < 0 THEN st
    ELSE
        LET less == Less(a)
            l == UAdd(less, IF st.l > 0 THEN OccGet(USub(st.l, 1), a) ELSE 0)
            r == UAdd(less, OccGet(st.r, a))
        IN  IF l < 0 THEN [l |-> l, r |-> l, wrapped |-> st.wrapped]
            ELSE IF r < 0 THEN [l |-> r, r |-> r, wrapped |-> st.wrapped]
            ELSE [l |-> l, r |-> r, wrapped |-> st.wrapped]

\* one round of the loop: st is (l, r), a the symbol
BackwardSearchStep(st, a) ==
    IF st.l < 0 \/ st.r < 0 THEN st
    ELSE
        LET less == Less(a)
            l == UAdd(less, IF st.l > 0 THEN OccGet(USub(st.l, 1), a) ELSE 0)
            below == UAdd(less, OccGet(st.r, a))
            r == USub(below, 1)
        IN  IF l < 0 THEN [l |-> l, r |-> l, wrapped |-> st.wrapped]
            ELSE IF r < 0 THEN [l |-> r, r |-> r, wrapped |-> st.wrapped]
            ELSE [l |-> l, r |-> r, wrapped |-> st.wrapped \/ below = 0]

RECURSIVE BackwardSearchLoop(_, _, _)
\* for &a in pattern.rev(): the symbols p[k], p[k-1], ..., p[1]
BackwardSearchLoop(st, p, k) ==
    IF k = 0 THEN st
    ELSE BackwardSearchLoop(BackwardSearchStep(st, p[k]), p, k - 1)

\* the loop's final (l, r) and whether a usize operation wrapped
BackwardSearchRun(p) ==
    LET st0 == [l |-> 0, r |-> USub(Len(bwt), 1), wrapped |-> Len(bwt) = 0]
        st == BackwardSearchLoop(st0, p, Len(p))
        upper == UAdd(st.r, 1)
    IN  [lower |-> IF upper < 0 THEN upper ELSE st.l,
         upper |-> upper,
         wrapped |-> st.wrapped \/ (st.r >= 0 /\ st.r + 1 >= UsizeModulus)]

backward_search(p) ==
    LET run == BackwardSearchRun(p)
    IN  [lower |-> run.lower, upper |-> run.upper]

Panicked(iv) == iv.lower < 0 \/ iv.upper < 0

\* SAAndFMIndex::positions_from_interval: sa[lower..upper]
positions_from_interval(iv) ==
    IF Panicked(iv) THEN <<iv.upper>>
    ELSE IF iv.lower > iv.upper \/ iv.upper > Len(sa) THEN <<PanicBounds>>
    ELSE SubSeq(sa, iv.lower + 1, iv.upper)

---------------------------------------------------------------------------
(* dna::RevComp and the FMD text *)

\* RevComp::comp: A<->T, C<->G, N<->N, the case kept, any other byte itself
comp(a) ==
    CASE a = BaseA -> BaseT
      [] a = BaseT -> BaseA
      [] a = BaseC -> BaseG
      [] a = BaseG -> BaseC
      [] a = BaseA + CaseShift -> BaseT + CaseShift
      [] a = BaseT + CaseShift -> BaseA + CaseShift
      [] a = BaseC + CaseShift -> BaseG + CaseShift
      [] a = BaseG + CaseShift -> BaseC + CaseShift
      [] OTHER -> a

\* RevComp::get: the reverse complement of a string
revcomp(w) == [k \in 1..Len(w) |-> comp(w[Len(w) + 1 - k])]

RECURSIVE FmdText(_)
\* T1 $ R1 $ T2 $ R2 $ ... for the reads T1, T2, ...
FmdText(reads) ==
    IF reads = <<>> THEN <<>>
    ELSE Head(reads) \o <<Sentinel>> \o revcomp(Head(reads)) \o <<Sentinel>>
             \o FmdText(Tail(reads))

RECURSIVE ReadLists(_, _)
\* the lists of non-empty reads over alphabet whose lengths sum to at most total
ReadLists(alphabet, total) ==
    {<<>>} \cup
    UNION {{<<w>> \o rest : rest \in ReadLists(alphabet, total - Len(w))} :
              w \in WordsUpTo(alphabet, total)}

FmdTexts(alphabet, total) ==
    {FmdText(reads) : reads \in ReadLists(alphabet, total) \ {<<>>}}

---------------------------------------------------------------------------
(* BiInterval *)

\* a BiInterval-valued computation that panicked with code
PanicBi(code) ==
    [lower |-> code, lower_rev |-> code, size |-> code, match_size |-> code]

BiPanicked(b) ==
    b.lower < 0 \/ b.lower_rev < 0 \/ b.size < 0 \/ b.match_size < 0

\* BiInterval::forward
forward(b) ==
    LET upper == UAdd(b.lower, b.size)
    IN  [lower |-> IF upper < 0 THEN upper ELSE b.lower, upper |-> upper]

\* BiInterval::reverse
reverse(b) ==
    LET upper == UAdd(b.lower_rev, b.size)
    IN  [lower |-> IF upper < 0 THEN upper ELSE b.lower, upper |-> upper]

\* BiInterval::swapped
swapped(b) ==
    [lower |-> b.lower_rev, lower_rev |-> b.lower, size |-> b.size,
     match_size |-> b.match_size]

---------------------------------------------------------------------------
(* FMDIndex::init_interval, backward_ext, forward_ext *)

init_interval(p, i) ==
    IF i >= Len(p) THEN PanicBi(PanicBounds)
    ELSE
        LET a == p[i + 1]
            lower == Less(a)
            size == USub(Less(a + 1), lower)
        IN  IF size < 0 THEN PanicBi(size)
            ELSE [lower |-> lower, lower_rev |-> Less(comp(a)), size |-> size,
                  match_size |-> 1]

\* ExtOrder in the ascending order of the symbols, not of their complements
ExtOrderAscending ==
    <<Sentinel, BaseA, BaseC, BaseG, BaseN, BaseT,
      BaseA + CaseShift, BaseC + CaseShift, BaseG + CaseShift,
      BaseN + CaseShift, BaseT + CaseShift>>

\* b"$TGCNAtgcna"
ExtOrder ==
    <<Sentinel, BaseT, BaseG, BaseC, BaseN, BaseA,
      BaseT + CaseShift, BaseG + CaseShift, BaseC + CaseShift,
      BaseN + CaseShift, BaseA + CaseShift>>

\* one round of backward_ext's loop, for the symbol b: st is (l, o, sz), sz the
\* source's s
BackwardExtStep(st, iv, b) ==
    LET l == UAdd(st.l, st.sz)
        o == OccGet(USub(iv.lower, 1), b)
        hi == OccGet(USub(UAdd(iv.lower, iv.size), 1), b)
        sz == IF o < 0 THEN o ELSE USub(hi, o)
    IN  [l |-> l, o |-> o, sz |-> sz]

RECURSIVE BackwardExtLoop(_, _, _, _)
\* for &b in b"$TGCNAtgcna", from the k-th symbol on, until b == a
BackwardExtLoop(st, iv, a, k) ==
    IF k > Len(ExtOrder) THEN st
    ELSE
        LET next == BackwardExtStep(st, iv, ExtOrder[k])
        IN  IF ExtOrder[k] = a THEN next
            ELSE BackwardExtLoop(next, iv, a, k + 1)

backward_ext(iv, a) ==
    LET st == BackwardExtLoop([l |-> iv.lower_rev, o |-> 0, sz |-> 0], iv, a, 1)
        k == UAdd(Less(a), st.o)
    IN  IF st.l < 0 THEN PanicBi(st.l)
        ELSE IF st.o < 0 THEN PanicBi(st.o)
        ELSE IF st.sz < 0 THEN PanicBi(st.sz)
        ELSE [lower |-> k, lower_rev |-> st.l, size |-> st.sz,
              match_size |-> UAdd(iv.match_size, 1)]

forward_ext(iv, a) == swapped(backward_ext(swapped(iv), comp(a)))

---------------------------------------------------------------------------
(* FMDIndex::smems *)

\* let mut last_size = -1
NoSize == -1

\* ReverseSeq with the reversal forgotten
KeepOrder(q) == q

RECURSIVE ReverseSeq(_)
\* curr.reverse()
ReverseSeq(q) ==
    IF q = <<>> THEN <<>> ELSE Append(ReverseSeq(Tail(q)), Head(q))

RECURSIVE SmemsForward(_, _, _, _)
\* a round of the first loop, forward_interval being the forward extension of iv
\* by the symbol p[idx] (0-based): the final interval and curr; a panicked
\* extension is the final interval
SmemsForwardStep(iv, curr, p, idx, forward_interval) ==
    IF BiPanicked(forward_interval)
        THEN [interval |-> forward_interval, curr |-> curr]
    ELSE IF forward_interval.size = 0
        THEN [interval |-> iv, curr |-> Append(curr, iv)]
    ELSE SmemsForward(forward_interval,
                      IF iv.size # forward_interval.size
                          THEN Append(curr, iv) ELSE curr,
                      p, idx + 1)

\* for &a in pattern[i + 1..].iter(), from the symbol p[idx] on
SmemsForward(iv, curr, p, idx) ==
    IF idx >= Len(p) THEN [interval |-> iv, curr |-> curr]
    ELSE SmemsForwardStep(iv, curr, p, idx, forward_ext(iv, p[idx + 1]))

\* IsMaximal with the test k < j forgotten
IsMaximalAnyJ(forward_interval, k, curr, j) ==
    /\ forward_interval.size = 0 \/ k = -1
    /\ curr = <<>>

\* whether the interval whose backward extension is forward_interval is pushed
\* to matches
IsMaximal(forward_interval, k, curr, j) ==
    /\ forward_interval.size = 0 \/ k = -1
    /\ curr = <<>>
    /\ k < j

\* matches.push(interval), with j = k, when the interval is maximal
SmemsPushMatch(st, iv, k, forward_interval) ==
    IF IsMaximal(forward_interval, k, st.curr, st.j)
        THEN [st EXCEPT !.j = k,
                        !.matches = Append(@, iv),
                        !.starts = Append(@, k + 1)]
        ELSE st

\* curr.push(forward_interval), with last_size, when its size is new and not 0
SmemsPushCurr(st, forward_interval) ==
    IF forward_interval.size # 0 /\ forward_interval.size # st.last_size
        THEN [st EXCEPT !.last_size = forward_interval.size,
                        !.curr = Append(@, forward_interval)]
        ELSE st

\* the body of the loop over prev, forward_interval being the backward
\* extension of iv: st is curr, last_size, j, matches (with the start of each
\* match) and the panic that ended smems
SmemsBackwardBody(st, iv, k, forward_interval) ==
    IF BiPanicked(forward_interval)
        THEN [st EXCEPT !.panic = forward_interval.size]
        ELSE SmemsPushCurr(SmemsPushMatch(st, iv, k, forward_interval),
                           forward_interval)

SmemsBackwardStep(st, iv, a, k) ==
    IF st.panic # 0 THEN st
    ELSE SmemsBackwardBody(st, iv, k, backward_ext(iv, a))

RECURSIVE SmemsInner(_, _, _, _, _)
\* for &interval in prev.iter(), from the idx-th interval on
SmemsInner(st, prev, idx, a, k) ==
    IF idx > Len(prev) THEN st
    ELSE SmemsInner(SmemsBackwardStep(st, prev[idx], a, k), prev, idx + 1, a, k)

RECURSIVE SmemsBackward(_, _, _, _)
\* the end of a round of the second loop: stop when curr is empty, else swap
SmemsBackwardNext(inner, p, k) ==
    IF inner.panic # 0 \/ inner.curr = <<>> THEN inner
    ELSE SmemsBackward(inner.curr, inner, p, k - 1)

\* for k in (-1..i as isize).rev(), from k on
SmemsBackward(prev, st, p, k) ==
    IF k < -1 THEN st
    ELSE SmemsBackwardNext(
             SmemsInner([st EXCEPT !.curr = <<>>, !.last_size = NoSize],
                        prev, 1, IF k = -1 THEN Sentinel ELSE p[k + 1], k),
             p, k)

\* the state before the second loop
SmemsStart(p) ==
    [curr |-> <<>>, last_size |-> NoSize, j |-> Len(p),
     matches |-> <<>>, starts |-> <<>>, panic |-> 0]

\* smems from the end of the first loop on
SmemsAfterForward(p, i, fwd) ==
    IF BiPanicked(fwd.interval)
        THEN [SmemsStart(p) EXCEPT !.panic = fwd.interval.size]
        ELSE SmemsBackward(ReverseSeq(Append(fwd.curr, fwd.interval)),
                           SmemsStart(p), p, i - 1)

\* smems from the first loop on
SmemsAfterInit(p, i, first) ==
    IF BiPanicked(first) THEN [SmemsStart(p) EXCEPT !.panic = first.size]
    ELSE SmemsAfterForward(p, i, SmemsForward(first, <<>>, p, i + 1))

\* smems(pattern, i): matches, the start of each match in the pattern, and the
\* panic that ended the call (0: it returned)
smems(p, i) == SmemsAfterInit(p, i, init_interval(p, i))

---------------------------------------------------------------------------
(* SampledFMIndex *)

\* SampledFMIndex::new: sample[j] = sa[j * s]
Sample(j) ==
    IF j * s >= Len(sa) THEN PanicBounds ELSE sa[j * s + 1]

---------------------------------------------------------------------------
(* Values of the variables an operation does not use *)

NoInterval == [lower |-> 0, upper |-> 0]
NoBiInterval == [lower |-> 0, lower_rev |-> 0, size |-> 0, match_size |-> 0]

---------------------------------------------------------------------------
(* Backward search on the index of one text ending in a single sentinel *)

TextAlphabet == {BaseA, BaseC, BaseG}

FMTexts == {w \o <<Sentinel>> : w \in WordsUpTo(TextAlphabet, MaxTextLen)}

FMPatterns == WordsUpTo(TextAlphabet \cup {Sentinel}, MaxPatLen)

InitIndex(texts) ==
    /\ text \in texts
    /\ sa = SuffixArray(text)
    /\ bwt = BWT(text, sa)
    /\ overflow_checks \in BOOLEAN
    /\ op = "new"
    /\ interval = NoInterval
    /\ wrapped = FALSE
    /\ positions = <<>>
    /\ bi = NoBiInterval
    /\ bistr = <<>>
    /\ nonzero = TRUE
    /\ matches = <<>>
    /\ starts = <<>>
    /\ start = 0
    /\ pos = 0
    /\ offset = 0
    /\ ret = 0

InitFM ==
    /\ InitIndex(FMTexts)
    /\ pattern \in FMPatterns
    /\ anchor = 0
    /\ s = 1

\* let sai = fm.backward_search(pattern.iter())
BackwardSearch ==
    /\ op \in {"new", "smems"}
    /\ op' = "backward_search"
    /\ interval' = backward_search(pattern)
    /\ wrapped' = BackwardSearchRun(pattern).wrapped
    /\ UNCHANGED <<text, sa, bwt, overflow_checks, pattern, anchor, positions,
                   bi, bistr, nonzero, matches, starts, s, start, pos, offset,
                   ret>>

\* sai.occ(), for a search that returned
IntervalOcc ==
    /\ op = "backward_search"
    /\ ~Panicked(interval)
    /\ op' = "occ"
    /\ positions' = positions_from_interval(interval)
    /\ UNCHANGED <<text, sa, bwt, overflow_checks, pattern, anchor, interval,
                   wrapped, bi, bistr, nonzero, matches, starts, s, start, pos, offset,
                   ret>>

NextFM == BackwardSearch \/ IntervalOcc

SpecFM == InitFM /\ [][NextFM]_vars

---------------------------------------------------------------------------
(* Bi-intervals on the FMD index of T1 $ R1 $ T2 $ R2 $ ... *)

\* the bases of the reads; their complements come with the reverse strands
ReadAlphabet == {BaseA, BaseC, BaseN}

\* the symbols init_interval and the extensions are called with
ExtSymbols == {Sentinel, BaseA, BaseC, BaseG, BaseN, BaseT}

InitFMD ==
    /\ InitIndex(FmdTexts(ReadAlphabet, MaxTextLen))
    /\ pattern = <<>>
    /\ anchor = 0
    /\ s = 1

BiOps == {"init_interval", "backward_ext", "forward_ext"}

\* self.init_interval(pattern, i), for a one-symbol pattern
InitInterval ==
    /\ op = "new"
    /\ \E a \in ExtSymbols :
        /\ pattern' = <<a>>
        /\ bi' = init_interval(<<a>>, 0)
        /\ bistr' = <<a>>
    /\ op' = "init_interval"
    /\ nonzero' = (bi'.size > 0)
    /\ UNCHANGED <<text, sa, bwt, overflow_checks, anchor, interval, wrapped,
                   positions, matches, starts, s, start, pos, offset, ret>>

\* self.backward_ext(&interval, a), on a BiInterval an earlier call returned
BackwardExt ==
    /\ op \in BiOps
    /\ ~BiPanicked(bi)
    /\ Len(bistr) < MaxExtLen
    /\ \E a \in ExtSymbols :
        /\ bi' = backward_ext(bi, a)
        /\ bistr' = <<a>> \o bistr
    /\ op' = "backward_ext"
    /\ nonzero' = (nonzero /\ bi'.size > 0)
    /\ UNCHANGED <<text, sa, bwt, overflow_checks, pattern, anchor, interval,
                   wrapped, positions, matches, starts, s, start, pos, offset, ret>>

\* self.forward_ext(&interval, a), on a BiInterval an earlier call returned
ForwardExt ==
    /\ op \in BiOps
    /\ ~BiPanicked(bi)
    /\ Len(bistr) < MaxExtLen
    /\ \E a \in ExtSymbols :
        /\ bi' = forward_ext(bi, a)
        /\ bistr' = bistr \o <<a>>
    /\ op' = "forward_ext"
    /\ nonzero' = (nonzero /\ bi'.size > 0)
    /\ UNCHANGED <<text, sa, bwt, overflow_checks, pattern, anchor, interval,
                   wrapped, positions, matches, starts, s, start, pos, offset, ret>>

\* bi.forward()
Forward ==
    /\ op \in BiOps
    /\ ~BiPanicked(bi)
    /\ op' = "forward"
    /\ interval' = forward(bi)
    /\ UNCHANGED <<text, sa, bwt, overflow_checks, pattern, anchor, wrapped,
                   positions, bi, bistr, nonzero, matches, starts, s, start, pos,
                   offset, ret>>

\* bi.reverse()
Reverse ==
    /\ op \in BiOps
    /\ ~BiPanicked(bi)
    /\ op' = "reverse"
    /\ interval' = reverse(bi)
    /\ UNCHANGED <<text, sa, bwt, overflow_checks, pattern, anchor, wrapped,
                   positions, bi, bistr, nonzero, matches, starts, s, start, pos,
                   offset, ret>>

NextFMD == InitInterval \/ BackwardExt \/ ForwardExt \/ Forward \/ Reverse

SpecFMD == InitFMD /\ [][NextFMD]_vars

---------------------------------------------------------------------------
(* smems on the FMD index of T1 $ R1 $ T2 $ R2 $ ... *)

SmemsReadAlphabet == {BaseA, BaseC}

DNA == {BaseA, BaseC, BaseG, BaseT}

InitSmems ==
    /\ InitIndex(FmdTexts(SmemsReadAlphabet, MaxTextLen))
    /\ pattern \in WordsUpTo(DNA, MaxPatLen)
    /\ anchor \in 0..(Len(pattern) - 1)
    /\ s = 1

\* the call returns out.matches, or ends with the panic out.panic
SmemsReturn(out) ==
    /\ matches' = IF out.panic # 0 THEN <<PanicBi(out.panic)>> ELSE out.matches
    /\ starts' = out.starts

\* let intervals = fmdindex.smems(pattern, i)
Smems ==
    /\ op = "new"
    /\ op' = "smems"
    /\ SmemsReturn(smems(pattern, anchor))
    /\ UNCHANGED <<text, sa, bwt, overflow_checks, pattern, anchor, interval,
                   wrapped, positions, bi, bistr, nonzero, s, start, pos, offset,
                   ret>>

SmemsPanicked == \E k \in 1..Len(matches) : BiPanicked(matches[k])

NextSmems == Smems \/ BackwardSearch

SpecSmems == InitSmems /\ [][NextSmems]_vars

---------------------------------------------------------------------------
(* sa_pos_to_text_pos on the sampled index of one text *)

InitSampled ==
    /\ InitIndex(FMTexts)
    /\ pattern = <<>>
    /\ anchor = 0
    /\ s \in 1..MaxS

\* self.sa_pos_to_text_pos(pos)
SaPosToTextPos ==
    /\ op = "new"
    /\ \E row \in 0..(Len(sa) - 1) :
        /\ start' = row
        /\ pos' = row
    /\ offset' = 0
    /\ op' = "loop"
    /\ UNCHANGED <<text, sa, bwt, overflow_checks, pattern, anchor, interval,
                   wrapped, positions, bi, bistr, nonzero, matches, starts, s, ret>>

\* a round of the loop on a sampled row: return
WalkReturn ==
    /\ op = "loop"
    /\ pos % s = 0
    /\ ret' = UAdd(Sample(pos \div s), offset)
    /\ op' = IF ret' < 0 THEN "panic" ELSE "return"
    /\ UNCHANGED <<text, sa, bwt, overflow_checks, pattern, anchor, interval,
                   wrapped, positions, bi, bistr, nonzero, matches, starts, s,
                   start, pos, offset>>

\* a round of the loop on a row that is not sampled: one LF-mapping step
\* The offset is the only thing that tells two visits of a row apart, and the
\* next row depends on the row alone: a walk that is back on its start row
\* goes round the same rows for ever, and is not followed further.
WalkBack ==
    /\ op = "loop"
    /\ pos % s # 0
    /\ ~(pos = start /\ offset # 0)
    /\ LET c == bwt[pos + 1]
           next == UAdd(Less(c), OccGet(USub(pos, 1), c))
           off == USub(offset, 1)
       IN  IF next < 0 \/ off < 0
               THEN /\ op' = "panic"
                    /\ ret' = IF next < 0 THEN next ELSE off
                    /\ UNCHANGED <<pos, offset>>
               ELSE /\ op' = "loop"
                    /\ pos' = next
                    /\ offset' = off
                    /\ UNCHANGED ret
    /\ UNCHANGED <<text, sa, bwt, overflow_checks, pattern, anchor, interval,
                   wrapped, positions, bi, bistr, nonzero, matches, starts, s,
                   start>>

NextSampled == SaPosToTextPos \/ WalkReturn \/ WalkBack

SpecSampled == InitSampled /\ [][NextSampled]_vars

\* Texts of a SampledFMIndex: one text, or the reads of an FMD text with their
\* reverse complements (several sentinels)
SampledTexts == FMTexts \cup FmdTexts(ReadAlphabet, MaxTextLen)

InitSampledFMD ==
    /\ InitIndex(SampledTexts)
    /\ pattern = <<>>
    /\ anchor = 0
    /\ s \in 1..MaxS

\* A call that was made runs on: each round of the loop is taken as long as
\* the loop has not been left.
SpecSampledFair ==
    /\ InitSampledFMD
    /\ [][NextSampled]_vars
    /\ WF_vars(SaPosToTextPos)
    /\ WF_vars(WalkReturn)
    /\ WF_vars(WalkBack)

---------------------------------------------------------------------------
(* The claims *)

Range(q) == {q[k] : k \in 1..Len(q)}

\* the rows lower .. lower + size - 1
Rows(lower, size) == lower..(lower + size - 1)

\* C1: for a pattern that occurs in the text, backward_search returns an
\* interval [lower, upper) whose suffix array entries are exactly the places
\* where the pattern occurs, and Interval::occ returns those places.
C1_BackwardSearchFindsOccurrences ==
    OccursIn(text, pattern) =>
        /\ (op = "backward_search" =>
               /\ ~Panicked(interval)
               /\ interval.lower <= interval.upper
               /\ interval.upper <= Len(sa)
               /\ {sa[r + 1] : r \in interval.lower..(interval.upper - 1)}
                      = Occurrences(text, pattern))
        /\ (op = "occ" => Range(positions) = Occurrences(text, pattern))

\* C1 witness: occ has returned for a pattern of two symbols that occurs twice.
C1_Witness ==
    /\ op = "occ"
    /\ Len(pattern) = 2
    /\ Cardinality(Occurrences(text, pattern)) = 2
    /\ Len(positions) = 2

\* C8: for a pattern over the text's alphabet (the sentinel is not part of it)
\* that does not occur in the text, backward_search returns upper == lower.
C8_AbsentPatternEmptyInterval ==
    (/\ op = "backward_search"
     /\ Range(pattern) \subseteq TextAlphabet
     /\ ~OccursIn(text, pattern)) =>
        (~Panicked(interval) /\ interval.upper = interval.lower)

\* C8 witness: a search has returned for a pattern of three symbols whose last
\* symbol is not in the text (the interval is empty from the first round on),
\* with an empty interval that is not [0, 0).
C8_Witness ==
    /\ op = "backward_search"
    /\ Range(pattern) \subseteq TextAlphabet
    /\ Len(pattern) = 3
    /\ ~OccursIn(text, <<pattern[3]>>)
    /\ interval.upper = interval.lower
    /\ interval.lower > 0

\* C9: for every pattern over the alphabet and the sentinel, every step of
\* backward_search is well-defined on usize: no panic (overflow, occ out of
\* range) and no wrapped value.
C9_BackwardSearchWellDefined ==
    op = "backward_search" => (~Panicked(interval) /\ ~wrapped)

\* the bi-interval invariant: the forward range is the suffix array interval of
\* the string, the reverse range that of its reverse complement, match_size its
\* length
BiInvariant ==
    /\ bi.match_size = Len(bistr)
    /\ Rows(bi.lower, bi.size) = SAInterval(bistr)
    /\ Rows(bi.lower_rev, bi.size) = SAInterval(revcomp(bistr))

\* C2, as claimed: after init_interval and any extensions whose results all have
\* size > 0, the bi-interval invariant holds.
C2_BiIntervalInvariant ==
    (op \in BiOps /\ nonzero) => BiInvariant

\* C2, amended: after init_interval and any extensions whose results all have
\* size > 0, all called with a base A, C, G, T or N (not with the sentinel), the
\* bi-interval invariant holds.
C2_BiIntervalInvariantOfBases ==
    (op \in BiOps /\ nonzero /\ Sentinel \notin Range(bistr)) => BiInvariant

\* C2 witness: a forward extension has returned the bi-interval of a string of
\* three bases that occurs, whose two ranges differ.
C2_Witness ==
    /\ op = "forward_ext"
    /\ nonzero
    /\ Sentinel \notin Range(bistr)
    /\ Len(bistr) = 3
    /\ bi.size >= 1
    /\ bi.lower # bi.lower_rev

\* C6: forward() is [lower, lower + size) and reverse() is
\* [lower_rev, lower_rev + size).
C6_Projections ==
    /\ (op = "forward" =>
           interval = [lower |-> bi.lower, upper |-> bi.lower + bi.size])
    /\ (op = "reverse" =>
           interval = [lower |-> bi.lower_rev, upper |-> bi.lower_rev + bi.size])

\* C10: backward_ext on a bi-interval with lower == 0 (forward_ext on one with
\* lower_rev == 0, which it swaps) returns a bi-interval: it does not panic.
C10_ExtensionAtLowerZero ==
    [][(/\ op \in BiOps
        /\ ~BiPanicked(bi)
        /\ \/ (bi.lower = 0 /\ op' = "backward_ext")
           \/ (bi.lower_rev = 0 /\ op' = "forward_ext"))
          => ~BiPanicked(bi')]_vars

\* the string of the k-th match: pattern[starts[k] .. starts[k] + match_size)
MatchFrom(k) == starts[k]
MatchTo(k) == starts[k] + matches[k].match_size

\* C3: each bi-interval smems returns stands for a substring pattern[k..j)
\* that holds the anchor, and neither pattern[k-1..j) nor pattern[k..j+1)
\* occurs in the text.
C3_SmemsSupermaximal ==
    op = "smems" =>
        /\ ~SmemsPanicked
        /\ Len(starts) = Len(matches)
        /\ \A k \in 1..Len(matches) :
            /\ 0 <= MatchFrom(k)
            /\ MatchFrom(k) <= anchor
            /\ anchor < MatchTo(k)
            /\ MatchTo(k) <= Len(pattern)
            /\ Rows(matches[k].lower, matches[k].size)
                   = SAInterval(SubSeq(pattern, MatchFrom(k) + 1, MatchTo(k)))
            /\ (MatchFrom(k) > 0 =>
                   ~OccursIn(text, SubSeq(pattern, MatchFrom(k), MatchTo(k))))
            /\ (MatchTo(k) < Len(pattern) =>
                   ~OccursIn(text, SubSeq(pattern, MatchFrom(k) + 1, MatchTo(k) + 1)))

\* C3 witness: smems has returned two matches for a pattern of three symbols,
\* none of them the whole pattern.
C3_Witness ==
    /\ op = "smems"
    /\ Len(pattern) = 3
    /\ Len(matches) = 2
    /\ \A k \in 1..2 : matches[k].size >= 1 /\ matches[k].match_size = 2

\* C4: when the whole pattern occurs in the text, smems returns one
\* bi-interval, of match_size |pattern|, whose forward range is the suffix array
\* interval of the pattern: its occurrences are the pattern's, each once.
C4_WholePatternOneMatch ==
    (op = "smems" /\ OccursIn(text, pattern)) =>
        /\ ~SmemsPanicked
        /\ Len(matches) = 1
        /\ matches[1].match_size = Len(pattern)
        /\ Rows(matches[1].lower, matches[1].size) = SAInterval(pattern)
        /\ matches[1].size = Cardinality(Occurrences(text, pattern))

\* C4 witness: smems has returned for a pattern of two symbols or more that
\* occurs twice, from an anchor that is not its first symbol.
C4_Witness ==
    /\ op = "smems"
    /\ Len(pattern) >= 2
    /\ anchor >= 1
    /\ Cardinality(Occurrences(text, pattern)) = 2
    /\ Len(matches) = 1

RECURSIVE SumSizes(_)
\* the sum of the sizes of the bi-intervals of q
SumSizes(q) == IF q = <<>> THEN 0 ELSE Head(q).size + SumSizes(Tail(q))

\* backward_search has run after smems(pattern, |pattern| / 2) on the same index
BothSearched ==
    /\ op = "backward_search"
    /\ matches # <<>>
    /\ anchor = Len(pattern) \div 2

\* C7, as claimed: for every DNA pattern, the size of backward_search's interval
\* is the sum of the sizes of the bi-intervals of smems(p, |p| / 2).
C7_CountsAgree ==
    BothSearched =>
        /\ ~Panicked(interval)
        /\ ~SmemsPanicked
        /\ interval.upper - interval.lower = SumSizes(matches)

\* C7, amended: for every DNA pattern that occurs in the text, the size of
\* backward_search's interval is the sum of the sizes of the bi-intervals of
\* smems(p, |p| / 2).
C7_CountsAgreeWhenPresent ==
    (BothSearched /\ OccursIn(text, pattern)) =>
        /\ ~Panicked(interval)
        /\ ~SmemsPanicked
        /\ interval.upper - interval.lower = SumSizes(matches)

\* C7 witness: both searches have returned for a pattern of two symbols or more
\* that occurs twice.
C7_Witness ==
    /\ BothSearched
    /\ Len(pattern) >= 2
    /\ OccursIn(text, pattern)
    /\ interval.upper - interval.lower = 2

\* C5: sa_pos_to_text_pos(i) returns sa[i], for every row i and sampling rate.
C5_WalkBackReturnsSA ==
    /\ op # "panic"
    /\ (op = "return" => ret = sa[start + 1])

\* C11: the walk-back loop of sa_pos_to_text_pos terminates, for every text
\* (one or several sentinels), every sampling rate and every start row.  The
\* next row depends on the row alone, so a walk that terminates is never back
\* on the row it started from: no call is in the loop, on its start row, after
\* one or more LF-mapping steps.
C11_WalkBackTerminates == ~(op = "loop" /\ pos = start /\ offset # 0)

\* C12: every bi-interval smems returns has size >= 1, also when pattern[i]
\* itself does not occur in the text.
C12_SmemsSizesPositive ==
    op = "smems" =>
        \A k \in 1..Len(matches) : matches[k].size >= 1

=============================================================================
